---------------------------- MODULE Spec2Model ----------------------------
(***************************************************************************)
(* A model of the banking-exercise transaction pipeline:                   *)
(*   - the account state machine   (src/src/models/account.rs)             *)
(*   - the dispatcher / re-sequencer and the workers (src/src/processor.rs)*)
(*   - the driver                  (src/src/main.rs)                       *)
(* Amounts are integers counted in units of the smallest decimal step; the *)
(* Decimal type adds and subtracts them exactly.                           *)
(***************************************************************************)
EXTENDS Integers, Sequences, FiniteSets, Bags, TLC

(***************************************************************************)
(* Bounds of the model.                                                    *)
(***************************************************************************)
MaxClient == 2      \* client ids are 1..MaxClient
MaxTxnId == 2       \* transaction ids are 1..MaxTxnId
MaxAmount == 2      \* largest amount of a Deposit or Withdrawal
MaxDebit == 1       \* amounts go down to -MaxDebit (the parser accepts a sign)
MaxWorkers == 2     \* num_workers is 1..MaxWorkers
MaxTxns == 3        \* at most MaxTxns calls of process_ordered_txn
MaxPipeTxnId == 1   \* transaction ids of the transactions sent through the pipeline
MaxPipeAmount == 1  \* amounts of the transactions sent through the pipeline

Clients == 1..MaxClient
TxnIds == 1..MaxTxnId
Amounts == (0 - MaxDebit)..MaxAmount
Orders == 0..(MaxTxns - 1)

MonetaryKinds == {"Deposit", "Withdrawal"}
ReferenceKinds == {"Dispute", "Resolve", "Chargeback"}

(***************************************************************************)
(* Transaction: id, account_id and txn_type; the amount of a txn_type that *)
(* carries none is written 0.                                              *)
(***************************************************************************)
Transaction(id, account_id, kind, amount) ==
    [id |-> id, account_id |-> account_id, kind |-> kind, amount |-> amount]

Transactions ==
    {Transaction(i, c, k, a) : i \in TxnIds, c \in Clients, k \in MonetaryKinds, a \in Amounts}
    \cup {Transaction(i, c, k, 0) : i \in TxnIds, c \in Clients, k \in ReferenceKinds}

\* The transactions sent through the pipeline.
PipeTransactions ==
    {txn \in Transactions :
        /\ txn.id <= MaxPipeTxnId
        /\ txn.kind \in MonetaryKinds => txn.amount \in 1..MaxPipeAmount}

EmptyMap == [k \in {} |-> 0]

MapInsert(m, k, v) == [x \in (DOMAIN m) \cup {k} |-> IF x = k THEN v ELSE m[x]]

MapRemove(m, k) == [x \in (DOMAIN m) \ {k} |-> m[x]]

(***************************************************************************)
(* Account                                                                 *)
(***************************************************************************)
NewAccount(id) ==
    [id |-> id, available |-> 0, held |-> 0, locked |-> FALSE,
     txn_history |-> EmptyMap, disputed_txns |-> EmptyMap]

Total(self) == self.available - self.held

Rejected(self, e) == [acct |-> self, err |-> e]

Applied(self) == [acct |-> self, err |-> "Ok"]

\* DepositArm without the contains_key check.
DepositArmNoDuplicateCheck(self, txn) ==
    Applied([self EXCEPT !.available = @ + txn.amount,
                         !.txn_history = MapInsert(@, txn.id, txn)])

DepositArm(self, txn) ==
    IF txn.id \in DOMAIN self.txn_history
    THEN Rejected(self, "TransactionAlreadyProcessed")
    ELSE Applied([self EXCEPT !.available = @ + txn.amount,
                              !.txn_history = MapInsert(@, txn.id, txn)])

\* WithdrawalArm with the two ensure! checks in the other order.
WithdrawalArmFundsFirst(self, txn) ==
    IF ~(self.available >= txn.amount)
    THEN Rejected(self, "InsufficientFunds")
    ELSE IF txn.id \in DOMAIN self.txn_history
    THEN Rejected(self, "TransactionAlreadyProcessed")
    ELSE Applied([self EXCEPT !.available = @ - txn.amount,
                              !.txn_history = MapInsert(@, txn.id, txn)])

\* WithdrawalArm that asks for more than the amount to be available.
WithdrawalArmStrict(self, txn) ==
    IF txn.id \in DOMAIN self.txn_history
    THEN Rejected(self, "TransactionAlreadyProcessed")
    ELSE IF ~(self.available > txn.amount)
    THEN Rejected(self, "InsufficientFunds")
    ELSE Applied([self EXCEPT !.available = @ - txn.amount,
                              !.txn_history = MapInsert(@, txn.id, txn)])

\* WithdrawalArm that records the transaction before it checks the funds.
WithdrawalArmRecordsFirst(self, txn) ==
    IF txn.id \in DOMAIN self.txn_history
    THEN Rejected(self, "TransactionAlreadyProcessed")
    ELSE IF ~(self.available >= txn.amount)
    THEN Rejected([self EXCEPT !.txn_history = MapInsert(@, txn.id, txn)], "InsufficientFunds")
    ELSE Applied([self EXCEPT !.available = @ - txn.amount,
                              !.txn_history = MapInsert(@, txn.id, txn)])

WithdrawalArm(self, txn) ==
    IF txn.id \in DOMAIN self.txn_history
    THEN Rejected(self, "TransactionAlreadyProcessed")
    ELSE IF ~(self.available >= txn.amount)
    THEN Rejected(self, "InsufficientFunds")
    ELSE Applied([self EXCEPT !.available = @ - txn.amount,
                              !.txn_history = MapInsert(@, txn.id, txn)])

\* DisputeArm that puts an id on hold without finding it in txn_history.
DisputeArmNoLookup(self, txn) ==
    IF txn.id \in DOMAIN self.disputed_txns
    THEN Rejected(self, "TransactionAlreadyInDispute")
    ELSE LET amount == IF txn.id \in DOMAIN self.txn_history
                       THEN self.txn_history[txn.id].amount ELSE 0 IN
         Applied([self EXCEPT !.available = @ - amount,
                              !.held = @ + amount,
                              !.disputed_txns = MapInsert(@, txn.id, amount)])

\* DisputeArm that credits a disputed Withdrawal instead of debiting it.
DisputeArmCreditsWithdrawal(self, txn) ==
    IF txn.id \in DOMAIN self.disputed_txns
    THEN Rejected(self, "TransactionAlreadyInDispute")
    ELSE IF txn.id \notin DOMAIN self.txn_history
    THEN Rejected(self, "TransactionNotFound")
    ELSE LET past_txn == self.txn_history[txn.id] IN
         IF past_txn.kind = "Deposit"
         THEN Applied([self EXCEPT !.available = @ - past_txn.amount,
                                   !.held = @ + past_txn.amount,
                                   !.disputed_txns = MapInsert(@, past_txn.id, past_txn.amount)])
         ELSE Applied([self EXCEPT !.available = @ + past_txn.amount,
                                   !.held = @ + past_txn.amount,
                                   !.disputed_txns = MapInsert(@, past_txn.id, past_txn.amount)])

\* DisputeArm that puts the amount on hold without taking it off available.
DisputeArmHoldOnly(self, txn) ==
    IF txn.id \in DOMAIN self.disputed_txns
    THEN Rejected(self, "TransactionAlreadyInDispute")
    ELSE IF txn.id \notin DOMAIN self.txn_history
    THEN Rejected(self, "TransactionNotFound")
    ELSE LET past_txn == self.txn_history[txn.id] IN
         Applied([self EXCEPT !.held = @ + past_txn.amount,
                              !.disputed_txns = MapInsert(@, past_txn.id, past_txn.amount)])

DisputeArm(self, txn) ==
    IF txn.id \in DOMAIN self.disputed_txns
    THEN Rejected(self, "TransactionAlreadyInDispute")
    ELSE IF txn.id \notin DOMAIN self.txn_history
    THEN Rejected(self, "TransactionNotFound")
    ELSE LET past_txn == self.txn_history[txn.id] IN
         IF past_txn.kind \in MonetaryKinds
         THEN Applied([self EXCEPT !.available = @ - past_txn.amount,
                                   !.held = @ + past_txn.amount,
                                   !.disputed_txns = MapInsert(@, past_txn.id, past_txn.amount)])
         ELSE Applied(self)

\* ResolveArm that looks the amount up with get and leaves it in disputed_txns.
ResolveArmKeepsDisputed(self, txn) ==
    IF txn.id \notin DOMAIN self.disputed_txns
    THEN Rejected(self, "TransactionNotInDispute")
    ELSE LET disputed_amount == self.disputed_txns[txn.id] IN
         Applied([self EXCEPT !.available = @ + disputed_amount,
                              !.held = @ - disputed_amount])

ResolveArm(self, txn) ==
    IF txn.id \notin DOMAIN self.disputed_txns
    THEN Rejected(self, "TransactionNotInDispute")
    ELSE LET disputed_amount == self.disputed_txns[txn.id] IN
         Applied([self EXCEPT !.disputed_txns = MapRemove(@, txn.id),
                              !.available = @ + disputed_amount,
                              !.held = @ - disputed_amount])

\* ChargebackArm that leaves the funds on hold.
ChargebackArmKeepsHeld(self, txn) ==
    IF txn.id \notin DOMAIN self.disputed_txns
    THEN Rejected(self, "TransactionNotInDispute")
    ELSE Applied([self EXCEPT !.disputed_txns = MapRemove(@, txn.id),
                              !.locked = TRUE])

\* ChargebackArm without self.locked = true.
ChargebackArmNoLock(self, txn) ==
    IF txn.id \notin DOMAIN self.disputed_txns
    THEN Rejected(self, "TransactionNotInDispute")
    ELSE LET disputed_amount == self.disputed_txns[txn.id] IN
         Applied([self EXCEPT !.disputed_txns = MapRemove(@, txn.id),
                              !.held = @ - disputed_amount])

ChargebackArm(self, txn) ==
    IF txn.id \notin DOMAIN self.disputed_txns
    THEN Rejected(self, "TransactionNotInDispute")
    ELSE LET disputed_amount == self.disputed_txns[txn.id] IN
         Applied([self EXCEPT !.disputed_txns = MapRemove(@, txn.id),
                              !.held = @ - disputed_amount,
                              !.locked = TRUE])

\* ProcessTxn without the ensure!(!self.locked) check.
ProcessTxnNoLockCheck(self, txn) ==
    IF self.id # txn.account_id THEN Rejected(self, "WrongAccount")
    ELSE CASE txn.kind = "Deposit" -> DepositArm(self, txn)
           [] txn.kind = "Withdrawal" -> WithdrawalArm(self, txn)
           [] txn.kind = "Dispute" -> DisputeArm(self, txn)
           [] txn.kind = "Resolve" -> ResolveArm(self, txn)
           [] txn.kind = "Chargeback" -> ChargebackArm(self, txn)

ProcessTxn(self, txn) ==
    IF self.id # txn.account_id THEN Rejected(self, "WrongAccount")
    ELSE IF self.locked THEN Rejected(self, "AccountLocked")
    ELSE CASE txn.kind = "Deposit" -> DepositArm(self, txn)
           [] txn.kind = "Withdrawal" -> WithdrawalArm(self, txn)
           [] txn.kind = "Dispute" -> DisputeArm(self, txn)
           [] txn.kind = "Resolve" -> ResolveArm(self, txn)
           [] txn.kind = "Chargeback" -> ChargebackArm(self, txn)

(***************************************************************************)
(* The output row of an account (impl Serialize for Account).              *)
(***************************************************************************)
Serialize(self) ==
    [client |-> self.id, available |-> self.available, held |-> self.held,
     total |-> Total(self), locked |-> self.locked]

(***************************************************************************)
(* OrderedTransaction and the channel messages Option<T>.                  *)
(***************************************************************************)
OrderedTransaction(order, txn) == [order |-> order, txn |-> txn]

Some(x) == [some |-> TRUE, val |-> x]

None == [some |-> FALSE]

VARIABLES
    account,        \* a lone Account driven directly through Account::process_txn
    last,           \* the last call on it: the transaction's type and the result
    charged,        \* whether a Chargeback has returned Ok on it
    charged_back,   \* the sum of the amounts successful Chargebacks took off held
    num_workers,    \* TransactionProcessor::new's argument
    txn_tx,         \* the dispatcher's channel
    heap,           \* the dispatcher's BinaryHeap<Reverse<OrderedTransaction>>, a bag
    next_expected,  \* the dispatcher's next_expected
    dispatcher,     \* the dispatcher thread: "running" or "returned"
    worker_tx,      \* each worker's channel
    worker_accounts,\* each worker thread's HashMap<AccountId, Account>
    worker_thread,  \* each worker thread: "running" or "returned"
    mainpc,         \* the driver's position
    stopping,       \* the index of the worker shutdown is stopping
    accounts,       \* shutdown's accumulator of account snapshots
    output,         \* the rows written to the sink
    submitted,      \* history: the bag of OrderedTransactions sent
    forwarded,      \* history: the OrderedTransactions the dispatcher delivered, in order
    popped          \* history: how many of them were popped off the heap

acctVars == <<account, last, charged, charged_back>>

pipeVars == <<num_workers, txn_tx, heap, next_expected, dispatcher, worker_tx,
              worker_accounts, worker_thread, mainpc, stopping, accounts, output,
              submitted, forwarded, popped>>

vars == <<account, last, charged, charged_back, num_workers, txn_tx, heap, next_expected, dispatcher,
          worker_tx, worker_accounts, worker_thread, mainpc, stopping, accounts,
          output, submitted, forwarded, popped>>

Workers == 0..(num_workers - 1)

NoCall == [called |-> FALSE]

InitAccount ==
    /\ account = NewAccount(1)
    /\ last = NoCall
    /\ charged = FALSE
    /\ charged_back = 0

InitPipeline ==
    /\ txn_tx = <<>>
    /\ heap = EmptyBag
    /\ next_expected = 0
    /\ dispatcher = "running"
    /\ worker_tx = [w \in Workers |-> <<>>]
    /\ worker_accounts = [w \in Workers |-> EmptyMap]
    /\ worker_thread = [w \in Workers |-> "running"]
    /\ mainpc = "feeding"
    /\ stopping = 0
    /\ accounts = {}
    /\ output = {}
    /\ submitted = EmptyBag
    /\ forwarded = <<>>
    /\ popped = 0

(***************************************************************************)
(* Account::process_txn called on the lone account, one action per         *)
(* transaction type.                                                       *)
(***************************************************************************)
\* What the histories record of a call and of its result.
Called(txn, err) == [called |-> TRUE, kind |-> txn.kind, err |-> err]

Charges(txn, err) == txn.kind = "Chargeback" /\ err = "Ok"

\* The amount a successful Chargeback removes with disputed_txns.remove.
ChargedAmount(self, txn) ==
    IF Charges(txn, ProcessTxn(self, txn).err) THEN self.disputed_txns[txn.id] ELSE 0

Deposit ==
    \E id \in TxnIds, c \in Clients, amount \in Amounts :
        LET txn == Transaction(id, c, "Deposit", amount) IN
        /\ account' = ProcessTxn(account, txn).acct
        /\ last' = Called(txn, ProcessTxn(account, txn).err)
        /\ charged' = (charged \/ Charges(txn, ProcessTxn(account, txn).err))
        /\ charged_back' = charged_back + ChargedAmount(account, txn)
        /\ UNCHANGED pipeVars

Withdrawal ==
    \E id \in TxnIds, c \in Clients, amount \in Amounts :
        LET txn == Transaction(id, c, "Withdrawal", amount) IN
        /\ account' = ProcessTxn(account, txn).acct
        /\ last' = Called(txn, ProcessTxn(account, txn).err)
        /\ charged' = (charged \/ Charges(txn, ProcessTxn(account, txn).err))
        /\ charged_back' = charged_back + ChargedAmount(account, txn)
        /\ UNCHANGED pipeVars

Dispute ==
    \E id \in TxnIds, c \in Clients :
        LET txn == Transaction(id, c, "Dispute", 0) IN
        /\ account' = ProcessTxn(account, txn).acct
        /\ last' = Called(txn, ProcessTxn(account, txn).err)
        /\ charged' = (charged \/ Charges(txn, ProcessTxn(account, txn).err))
        /\ charged_back' = charged_back + ChargedAmount(account, txn)
        /\ UNCHANGED pipeVars

Resolve ==
    \E id \in TxnIds, c \in Clients :
        LET txn == Transaction(id, c, "Resolve", 0) IN
        /\ account' = ProcessTxn(account, txn).acct
        /\ last' = Called(txn, ProcessTxn(account, txn).err)
        /\ charged' = (charged \/ Charges(txn, ProcessTxn(account, txn).err))
        /\ charged_back' = charged_back + ChargedAmount(account, txn)
        /\ UNCHANGED pipeVars

Chargeback ==
    \E id \in TxnIds, c \in Clients :
        LET txn == Transaction(id, c, "Chargeback", 0) IN
        /\ account' = ProcessTxn(account, txn).acct
        /\ last' = Called(txn, ProcessTxn(account, txn).err)
        /\ charged' = (charged \/ Charges(txn, ProcessTxn(account, txn).err))
        /\ charged_back' = charged_back + ChargedAmount(account, txn)
        /\ UNCHANGED pipeVars

NextAccount == Deposit \/ Withdrawal \/ Dispute \/ Resolve \/ Chargeback

\* The pipeline stands idle, with the one worker the account would live in.
InitLoneAccount == InitAccount /\ num_workers = 1 /\ InitPipeline

SpecAccount == InitLoneAccount /\ [][NextAccount]_vars

(***************************************************************************)
(* The dispatcher.                                                         *)
(*                                                                         *)
(* heap and next_expected are locals of the dispatcher thread, so one      *)
(* iteration of its loop (one recv and all it forwards) is one step.  The  *)
(* channels are unbounded: a send never blocks, and it fails only when the *)
(* receiving thread is gone, which happens to no thread before it has      *)
(* received None.  process_ordered_txn accepts any order tag; main sends   *)
(* the tags 0..n-1 of the records of its file.                             *)
(***************************************************************************)
\* WorkerIdx partitioning by the transaction id instead of the account id.
WorkerIdxByTxnId(txn) == txn.id % num_workers

\* process_txn closure: the worker a transaction is delivered to.
WorkerIdx(txn) == txn.account_id % num_workers

\* Deliver that puts a transaction at the front of the worker's channel.
RECURSIVE DeliverPrepend(_, _)
DeliverPrepend(chans, txns) ==
    IF txns = <<>> THEN chans
    ELSE LET txn == Head(txns) IN
         DeliverPrepend([chans EXCEPT ![WorkerIdx(txn)] = <<Some(txn)>> \o @], Tail(txns))

\* Worker::process_txn for each transaction of a sequence, in order.
RECURSIVE Deliver(_, _)
Deliver(chans, txns) ==
    IF txns = <<>> THEN chans
    ELSE LET txn == Head(txns) IN
         Deliver([chans EXCEPT ![WorkerIdx(txn)] = Append(@, Some(txn))], Tail(txns))

HeapSet(h) == BagToSet(h)

HeapPush(h, e) == h (+) SetToBag({e})

HeapPop(h, e) == h (-) SetToBag({e})

\* HeapPeek of a heap built without cmp::Reverse: an element of greatest order.
HeapPeekMax(h) == {e \in HeapSet(h) : \A f \in HeapSet(h) : e.order >= f.order}

\* heap.peek(): an element of least order; which one of several equal ones
\* the binary heap holds on top is not fixed by their order.
HeapPeek(h) == {e \in HeapSet(h) : \A f \in HeapSet(h) : e.order <= f.order}

Outcome(h, ne, out) == [heap |-> h, next_expected |-> ne, out |-> out]

\* Drain with an if in place of the while: at most one element is popped.
DrainOnce(h, ne, out) ==
    IF HeapSet(h) = {} THEN {Outcome(h, ne, out)}
    ELSE {IF e.order = ne
          THEN Outcome(HeapPop(h, e), ne + 1, Append(out, e))
          ELSE Outcome(h, ne, out) : e \in HeapPeek(h)}

\* The inner loop: process the top of the heap while it is the next expected.
RECURSIVE Drain(_, _, _)
Drain(h, ne, out) ==
    IF HeapSet(h) = {} THEN {Outcome(h, ne, out)}
    ELSE UNION {IF e.order = ne
                THEN Drain(HeapPop(h, e), ne + 1, Append(out, e))
                ELSE {Outcome(h, ne, out)} : e \in HeapPeek(h)}

\* Resequence that forwards whatever arrives, in arrival order.
ResequenceUnordered(h, ne, ordered_txn) == {Outcome(h, ne + 1, <<ordered_txn>>)}

\* Resequence that forwards a transaction whose tag is below next_expected.
ResequenceForwardsStale(h, ne, ordered_txn) ==
    IF ordered_txn.order = ne
    THEN Drain(h, ne + 1, <<ordered_txn>>)
    ELSE IF ordered_txn.order < ne
    THEN {Outcome(h, ne, <<ordered_txn>>)}
    ELSE {Outcome(HeapPush(h, ordered_txn), ne, <<>>)}

\* One iteration of the dispatcher loop on a received OrderedTransaction.
Resequence(h, ne, ordered_txn) ==
    IF ordered_txn.order = ne
    THEN Drain(h, ne + 1, <<ordered_txn>>)
    ELSE {Outcome(HeapPush(h, ordered_txn), ne, <<>>)}

RECURSIVE Txns(_)
Txns(ots) == IF ots = <<>> THEN <<>> ELSE <<Head(ots).txn>> \o Txns(Tail(ots))

\* process_ordered_txn: a deserializer thread sends an OrderedTransaction.
Submit ==
    /\ mainpc = "feeding"
    /\ BagCardinality(submitted) < MaxTxns
    /\ \E order \in Orders, txn \in PipeTransactions :
          LET ordered_txn == OrderedTransaction(order, txn) IN
          /\ txn_tx' = Append(txn_tx, Some(ordered_txn))
          /\ submitted' = submitted (+) SetToBag({ordered_txn})
    /\ UNCHANGED <<acctVars, num_workers, heap, next_expected, dispatcher, worker_tx,
                   worker_accounts, worker_thread, mainpc, stopping, accounts, output,
                   forwarded, popped>>

\* The dispatcher receives Some(ordered_txn).
DispatcherRecv ==
    /\ mainpc # "aborted"
    /\ dispatcher = "running"
    /\ txn_tx # <<>>
    /\ Head(txn_tx).some
    /\ \E o \in Resequence(heap, next_expected, Head(txn_tx).val) :
          /\ heap' = o.heap
          /\ next_expected' = o.next_expected
          /\ worker_tx' = Deliver(worker_tx, Txns(o.out))
          /\ forwarded' = forwarded \o o.out
          /\ popped' = popped + (IF o.out = <<>> THEN 0 ELSE Len(o.out) - 1)
    /\ txn_tx' = Tail(txn_tx)
    /\ UNCHANGED <<acctVars, num_workers, dispatcher, worker_accounts, worker_thread,
                   mainpc, stopping, accounts, output, submitted>>

\* DispatcherStop that leaves the loop only when nothing is left on the heap.
DispatcherStopWhenDrained ==
    /\ mainpc # "aborted"
    /\ dispatcher = "running"
    /\ txn_tx # <<>>
    /\ ~Head(txn_tx).some
    /\ heap = EmptyBag
    /\ txn_tx' = Tail(txn_tx)
    /\ dispatcher' = "returned"
    /\ UNCHANGED <<acctVars, num_workers, heap, next_expected, worker_tx, worker_accounts,
                   worker_thread, mainpc, stopping, accounts, output, submitted, forwarded, popped>>

\* The dispatcher receives None: the loop ends and the thread returns workers.
DispatcherStop ==
    /\ mainpc # "aborted"
    /\ dispatcher = "running"
    /\ txn_tx # <<>>
    /\ ~Head(txn_tx).some
    /\ txn_tx' = Tail(txn_tx)
    /\ dispatcher' = "returned"
    /\ UNCHANGED <<acctVars, num_workers, heap, next_expected, worker_tx, worker_accounts,
                   worker_thread, mainpc, stopping, accounts, output, submitted, forwarded, popped>>

(***************************************************************************)
(* The workers.                                                            *)
(***************************************************************************)
\* WorkerApply that keeps a new account only when its first transaction is accepted.
WorkerApplyNoAccountOnError(accts, txn) ==
    LET entry == IF txn.account_id \in DOMAIN accts THEN accts[txn.account_id]
                 ELSE NewAccount(txn.account_id) IN
    IF txn.account_id \notin DOMAIN accts /\ ProcessTxn(entry, txn).err # "Ok"
    THEN accts
    ELSE MapInsert(accts, txn.account_id, ProcessTxn(entry, txn).acct)

\* WorkerApply with one txn_history shared by all the accounts of the worker.
WorkerApplySharedHistory(accts, txn) ==
    LET entry == IF txn.account_id \in DOMAIN accts THEN accts[txn.account_id]
                 ELSE NewAccount(txn.account_id)
        ids == UNION {DOMAIN accts[c].txn_history : c \in DOMAIN accts}
        shared == [id \in ids |->
                     IF id \in DOMAIN entry.txn_history THEN entry.txn_history[id]
                     ELSE accts[CHOOSE c \in DOMAIN accts :
                                  id \in DOMAIN accts[c].txn_history].txn_history[id]] IN
    MapInsert(accts, txn.account_id,
              ProcessTxn([entry EXCEPT !.txn_history = shared], txn).acct)

\* accounts.entry(id).or_insert_with(|| Account::new(id)).process_txn(txn);
\* the result of process_txn is logged and dropped.
WorkerApply(accts, txn) ==
    LET entry == IF txn.account_id \in DOMAIN accts THEN accts[txn.account_id]
                 ELSE NewAccount(txn.account_id) IN
    MapInsert(accts, txn.account_id, ProcessTxn(entry, txn).acct)

\* WorkerRecv that returns from the thread when process_txn is an error.
WorkerRecvStopsOnError(w) ==
    /\ mainpc # "aborted"
    /\ worker_thread[w] = "running"
    /\ worker_tx[w] # <<>>
    /\ Head(worker_tx[w]).some
    /\ LET txn == Head(worker_tx[w]).val
           entry == IF txn.account_id \in DOMAIN worker_accounts[w]
                    THEN worker_accounts[w][txn.account_id]
                    ELSE NewAccount(txn.account_id) IN
       worker_thread' = [worker_thread EXCEPT
                           ![w] = IF ProcessTxn(entry, txn).err = "Ok" THEN @ ELSE "returned"]
    /\ worker_accounts' = [worker_accounts EXCEPT ![w] = WorkerApply(@, Head(worker_tx[w]).val)]
    /\ worker_tx' = [worker_tx EXCEPT ![w] = Tail(@)]
    /\ UNCHANGED <<acctVars, num_workers, txn_tx, heap, next_expected, dispatcher,
                   mainpc, stopping, accounts, output, submitted, forwarded, popped>>

WorkerRecv(w) ==
    /\ mainpc # "aborted"
    /\ worker_thread[w] = "running"
    /\ worker_tx[w] # <<>>
    /\ Head(worker_tx[w]).some
    /\ worker_accounts' = [worker_accounts EXCEPT ![w] = WorkerApply(@, Head(worker_tx[w]).val)]
    /\ worker_tx' = [worker_tx EXCEPT ![w] = Tail(@)]
    /\ UNCHANGED <<acctVars, num_workers, txn_tx, heap, next_expected, dispatcher,
                   worker_thread, mainpc, stopping, accounts, output, submitted, forwarded, popped>>

WorkerStop(w) ==
    /\ mainpc # "aborted"
    /\ worker_thread[w] = "running"
    /\ worker_tx[w] # <<>>
    /\ ~Head(worker_tx[w]).some
    /\ worker_tx' = [worker_tx EXCEPT ![w] = Tail(@)]
    /\ worker_thread' = [worker_thread EXCEPT ![w] = "returned"]
    /\ UNCHANGED <<acctVars, num_workers, txn_tx, heap, next_expected, dispatcher,
                   worker_accounts, mainpc, stopping, accounts, output, submitted, forwarded, popped>>

\* accounts.into_values().collect(): the snapshots, in no particular order.
IntoValues(accts) == {accts[c] : c \in DOMAIN accts}

(***************************************************************************)
(* The driver: main and TransactionProcessor::shutdown.                    *)
(***************************************************************************)
\* A record fails to deserialize: try_for_each returns the error and main
\* returns it; shutdown is not called and nothing is written.
ParseError ==
    /\ mainpc = "feeding"
    /\ mainpc' = "aborted"
    /\ UNCHANGED <<acctVars, num_workers, txn_tx, heap, next_expected, dispatcher, worker_tx,
                   worker_accounts, worker_thread, stopping, accounts, output, submitted,
                   forwarded, popped>>

\* ShutdownSend that main also reaches after try_for_each returned an error.
ShutdownSendAfterError ==
    /\ mainpc \in {"feeding", "aborted"}
    /\ txn_tx' = Append(txn_tx, None)
    /\ mainpc' = "join_dispatcher"
    /\ UNCHANGED <<acctVars, num_workers, heap, next_expected, dispatcher, worker_tx,
                   worker_accounts, worker_thread, stopping, accounts, output, submitted,
                   forwarded, popped>>

\* shutdown: send None to the dispatcher.
ShutdownSend ==
    /\ mainpc = "feeding"
    /\ txn_tx' = Append(txn_tx, None)
    /\ mainpc' = "join_dispatcher"
    /\ UNCHANGED <<acctVars, num_workers, heap, next_expected, dispatcher, worker_tx,
                   worker_accounts, worker_thread, stopping, accounts, output, submitted,
                   forwarded, popped>>

\* shutdown: txn_dispatcher.join() returns the workers.
JoinDispatcher ==
    /\ mainpc = "join_dispatcher"
    /\ dispatcher = "returned"
    /\ mainpc' = "stop_worker"
    /\ stopping' = 0
    /\ UNCHANGED <<acctVars, num_workers, txn_tx, heap, next_expected, dispatcher, worker_tx,
                   worker_accounts, worker_thread, accounts, output, submitted, forwarded, popped>>

\* Worker::stop: send None to the worker.
StopWorker ==
    /\ mainpc = "stop_worker"
    /\ worker_tx' = [worker_tx EXCEPT ![stopping] = Append(@, None)]
    /\ mainpc' = "join_worker"
    /\ UNCHANGED <<acctVars, num_workers, txn_tx, heap, next_expected, dispatcher,
                   worker_accounts, worker_thread, stopping, accounts, output, submitted,
                   forwarded, popped>>

\* JoinWorker that takes the worker's accounts without waiting for its thread.
JoinWorkerNoWait ==
    /\ mainpc = "join_worker"
    /\ accounts' = accounts \cup IntoValues(worker_accounts[stopping])
    /\ stopping' = stopping + 1
    /\ mainpc' = IF stopping + 1 = num_workers THEN "returned" ELSE "stop_worker"
    /\ UNCHANGED <<acctVars, num_workers, txn_tx, heap, next_expected, dispatcher, worker_tx,
                   worker_accounts, worker_thread, output, submitted, forwarded, popped>>

\* JoinWorker that keeps only the accounts of the worker it joined last.
JoinWorkerOverwrite ==
    /\ mainpc = "join_worker"
    /\ worker_thread[stopping] = "returned"
    /\ accounts' = IntoValues(worker_accounts[stopping])
    /\ stopping' = stopping + 1
    /\ mainpc' = IF stopping + 1 = num_workers THEN "returned" ELSE "stop_worker"
    /\ UNCHANGED <<acctVars, num_workers, txn_tx, heap, next_expected, dispatcher, worker_tx,
                   worker_accounts, worker_thread, output, submitted, forwarded, popped>>

\* Worker::stop: thread.join(), and try_fold's extend_from_slice.
JoinWorker ==
    /\ mainpc = "join_worker"
    /\ worker_thread[stopping] = "returned"
    /\ accounts' = accounts \cup IntoValues(worker_accounts[stopping])
    /\ stopping' = stopping + 1
    /\ mainpc' = IF stopping + 1 = num_workers THEN "returned" ELSE "stop_worker"
    /\ UNCHANGED <<acctVars, num_workers, txn_tx, heap, next_expected, dispatcher, worker_tx,
                   worker_accounts, worker_thread, output, submitted, forwarded, popped>>

\* main: serialize every account returned by shutdown.
Emit ==
    /\ mainpc = "returned"
    /\ output' = {Serialize(a) : a \in accounts}
    /\ mainpc' = "done"
    /\ UNCHANGED <<acctVars, num_workers, txn_tx, heap, next_expected, dispatcher, worker_tx,
                   worker_accounts, worker_thread, stopping, accounts, submitted, forwarded, popped>>

Init == InitAccount /\ num_workers \in 1..MaxWorkers /\ InitPipeline

Next ==
    \/ Submit
    \/ DispatcherRecv
    \/ DispatcherStop
    \/ \E w \in Workers : WorkerRecv(w)
    \/ \E w \in Workers : WorkerStop(w)
    \/ ParseError
    \/ ShutdownSend
    \/ JoinDispatcher
    \/ StopWorker
    \/ JoinWorker
    \/ Emit

Spec == Init /\ [][Next]_vars

(***************************************************************************)
(* Fair scheduling: a thread that can take a step takes one.  The          *)
(* dispatcher and the workers block only in recv on an empty channel, and  *)
(* shutdown, once called, blocks only in its joins.                        *)
(***************************************************************************)
Fairness ==
    /\ WF_vars(DispatcherRecv)
    /\ WF_vars(DispatcherStop)
    /\ \A w \in 0..(MaxWorkers - 1) :
          /\ WF_vars(w \in Workers /\ WorkerRecv(w))
          /\ WF_vars(w \in Workers /\ WorkerStop(w))
    /\ WF_vars(JoinDispatcher)
    /\ WF_vars(StopWorker)
    /\ WF_vars(JoinWorker)

SpecFair == Init /\ [][Next]_vars /\ Fairness

(***************************************************************************)
(* Reference computations over what was submitted.                         *)
(***************************************************************************)
Submitted == BagToSet(submitted)

NumSubmitted == BagCardinality(submitted)

\* The order tags submitted are exactly 0..n-1, each once.
ExactTags ==
    /\ \A e \in Submitted : CopiesIn(e, submitted) = 1 /\ e.order < NumSubmitted
    /\ \A e, f \in Submitted : e.order = f.order => e = f

\* The submitted transactions in the order of their tags (the input file).
InputFile ==
    [i \in 1..NumSubmitted |-> (CHOOSE e \in Submitted : e.order = i - 1).txn]

RECURSIVE ApplyAll(_, _)
ApplyAll(accts, txns) ==
    IF txns = <<>> THEN accts ELSE ApplyAll(WorkerApply(accts, Head(txns)), Tail(txns))

\* One pass over the file by a single account map.
SequentialPass(txns) == IntoValues(ApplyAll(EmptyMap, txns))

RECURSIVE ForClients(_, _)
ForClients(txns, cs) ==
    IF txns = <<>> THEN <<>>
    ELSE (IF Head(txns).account_id \in cs THEN <<Head(txns)>> ELSE <<>>)
         \o ForClients(Tail(txns), cs)

\* What the workers hold when each receives its clients' transactions in tag order.
InOrderPass(txns) ==
    UNION {SequentialPass(ForClients(txns, {c \in Clients : c % num_workers = w})) :
             w \in Workers}

\* The transactions forwarded to worker w, in the order they were sent.
ForwardedTo(w) == ForClients(Txns(forwarded), {c \in Clients : c % num_workers = w})

\* Those of them the worker has taken off its channel.
Consumed(w) ==
    LET waiting == Cardinality({i \in 1..Len(worker_tx[w]) : worker_tx[w][i].some}) IN
    SubSeq(ForwardedTo(w), 1, Len(ForwardedTo(w)) - waiting)

\* The transactions still waiting on a channel, in the order they will be received.
RECURSIVE Vals(_)
Vals(msgs) ==
    IF msgs = <<>> THEN <<>>
    ELSE (IF Head(msgs).some THEN <<Head(msgs).val>> ELSE <<>>) \o Vals(Tail(msgs))

\* The account a worker's map holds, or would create, for a transaction.
Entry(accts, txn) ==
    IF txn.account_id \in DOMAIN accts THEN accts[txn.account_id]
    ELSE NewAccount(txn.account_id)

\* Worker::stop has sent None to worker w.
StopSent(w) ==
    \/ mainpc \in {"returned", "done"}
    \/ mainpc \in {"stop_worker", "join_worker"} /\ stopping > w
    \/ mainpc = "join_worker" /\ stopping = w

\* No two submitted transactions carry the same order tag.
DistinctTags ==
    /\ \A e \in Submitted : CopiesIn(e, submitted) = 1
    /\ \A e, f \in Submitted : e.order = f.order => e = f

\* The tag of e and every tag below it were submitted.
GapFree(e) == \A t \in 0..e.order : \E f \in Submitted : f.order = t

DispatcherJoined == mainpc \in {"stop_worker", "join_worker", "returned", "done"}

ShutdownReturned == mainpc \in {"returned", "done"}

(***************************************************************************)
(* C1: every account's reported total, the total column of its output row, *)
(* equals available + held.                                                *)
(***************************************************************************)
C1_TotalIsAvailablePlusHeld ==
    \A row \in output : row.total = row.available + row.held

(***************************************************************************)
(* C2: when end-of-input reaches the dispatcher while its heap is          *)
(* non-empty, the run fails instead of returning account snapshots: so     *)
(* whenever shutdown has returned its accounts, the heap is empty.         *)
(***************************************************************************)
C2_GapFailsShutdown == ShutdownReturned => heap = EmptyBag

(***************************************************************************)
(* C3: the order tags the dispatcher has forwarded so far are exactly      *)
(* 0, 1, ..., next_expected - 1, in that order, whatever order the         *)
(* OrderedTransactions arrived in.                                         *)
(***************************************************************************)
C3_ForwardedAscending ==
    /\ Len(forwarded) = next_expected
    /\ \A i \in 1..Len(forwarded) : forwarded[i].order = i - 1

\* Transactions arrived out of order and were forwarded from the heap.
C3_Witness == popped >= 1 /\ Len(forwarded) >= 2 /\ heap # EmptyBag

(***************************************************************************)
(* C4: every transaction of client c is delivered to worker c mod          *)
(* num_workers, every account lives in the worker c mod num_workers, and   *)
(* no client id has an account in two workers.                             *)
(***************************************************************************)
C4_Partitioning ==
    /\ \A w \in Workers : \A i \in 1..Len(worker_tx[w]) :
          worker_tx[w][i].some => worker_tx[w][i].val.account_id % num_workers = w
    /\ \A w \in Workers : \A c \in DOMAIN worker_accounts[w] :
          c % num_workers = w /\ worker_accounts[w][c].id = c
    /\ \A v, w \in Workers :
          v # w => (DOMAIN worker_accounts[v]) \cap (DOMAIN worker_accounts[w]) = {}

\* Two workers each hold an account, and a client has had two transactions.
C4_Witness ==
    /\ num_workers = 2
    /\ \A w \in Workers : DOMAIN worker_accounts[w] # {}
    /\ \E c \in Clients : Cardinality({i \in 1..Len(forwarded) : forwarded[i].txn.account_id = c}) >= 2

(***************************************************************************)
(* C5: when the submitted order tags are exactly 0..n-1, the accounts      *)
(* shutdown returns are those of delivering the transactions to the        *)
(* workers in tag order, whatever order they arrived in.                   *)
(***************************************************************************)
C5_ArrivalOrderIrrelevant ==
    (ShutdownReturned /\ ExactTags) => accounts = InOrderPass(InputFile)

\* A full input arrived out of order, and its order matters to the result.
C5_Witness ==
    /\ ShutdownReturned /\ ExactTags
    /\ NumSubmitted = MaxTxns
    /\ popped >= 2
    /\ \E a \in accounts : a.held # 0

(***************************************************************************)
(* C6: when the submitted order tags are exactly 0..n-1, the accounts      *)
(* shutdown returns are, for every worker count, those of one sequential   *)
(* pass over the transactions in file order.                               *)
(***************************************************************************)
C6_WorkerCountIrrelevant ==
    (ShutdownReturned /\ ExactTags) => accounts = SequentialPass(InputFile)

\* Two workers each contributed an account to the result.
C6_Witness ==
    /\ ShutdownReturned /\ ExactTags
    /\ num_workers = 2
    /\ \A w \in Workers : \E a \in accounts : a.id % num_workers = w

(***************************************************************************)
(* C7: when the dispatcher has stopped on an input whose order tags are    *)
(* exactly 0..n-1, next_expected is n and the heap is empty.               *)
(***************************************************************************)
C7_CompleteAtShutdown ==
    (dispatcher = "returned" /\ ExactTags) =>
        (next_expected = NumSubmitted /\ heap = EmptyBag)

\* The dispatcher stopped after a full input of which two were popped off the heap.
C7_Witness ==
    /\ dispatcher = "returned" /\ ExactTags
    /\ NumSubmitted = MaxTxns
    /\ popped >= 2

(***************************************************************************)
(* C8: a locked account stays locked, and every later transaction for it,  *)
(* of any kind, is rejected with AccountLocked and leaves the account as   *)
(* it was.                                                                 *)
(***************************************************************************)
C8_LockedIsFinal ==
    /\ [](account.locked =>
            \A txn \in Transactions :
                txn.account_id = account.id =>
                    ProcessTxn(account, txn) = Rejected(account, "AccountLocked"))
    /\ [][account.locked => account' = account]_vars

\* A transaction for a locked account was rejected.
C8_Witness ==
    /\ account.locked
    /\ last.called /\ last.err = "AccountLocked" /\ last.kind = "Resolve"

(***************************************************************************)
(* C9: the account is locked exactly when a Chargeback has been applied to *)
(* it successfully.                                                        *)
(***************************************************************************)
C9_LockedIffChargeback == account.locked <=> charged

\* A Chargeback has just locked the account.
C9_Witness ==
    /\ account.locked /\ last.called /\ last.kind = "Chargeback" /\ last.err = "Ok"

(***************************************************************************)
(* C10: a Deposit or Withdrawal whose id is already in txn_history changes *)
(* nothing; on an open account that it targets it is rejected with         *)
(* TransactionAlreadyProcessed; every id in txn_history is recorded under  *)
(* itself and its entry never changes.                                     *)
(***************************************************************************)
C10_DuplicateRejected ==
    /\ [](\A txn \in Transactions :
            (txn.kind \in MonetaryKinds /\ txn.id \in DOMAIN account.txn_history) =>
                LET r == ProcessTxn(account, txn) IN
                /\ r.acct = account
                /\ r.err # "Ok"
                /\ (txn.account_id = account.id /\ ~account.locked) =>
                       r.err = "TransactionAlreadyProcessed")
    /\ [](\A id \in DOMAIN account.txn_history : account.txn_history[id].id = id)
    /\ [][\A id \in DOMAIN account.txn_history :
            /\ id \in DOMAIN account'.txn_history
            /\ account'.txn_history[id] = account.txn_history[id]]_vars

\* A Deposit of an id recorded by a Withdrawal was rejected.
C10_Witness ==
    /\ last.called /\ last.err = "TransactionAlreadyProcessed"
    /\ last.kind = "Deposit"
    /\ \A id \in TxnIds : id \in DOMAIN account.txn_history
    /\ \A id \in DOMAIN account.txn_history : account.txn_history[id].kind = "Withdrawal"

(***************************************************************************)
(* C11: held is the sum of the amounts in disputed_txns, and it is not     *)
(* negative when every recorded Deposit and Withdrawal amount is           *)
(* non-negative.                                                           *)
(***************************************************************************)
RECURSIVE SumOf(_)
SumOf(m) ==
    IF DOMAIN m = {} THEN 0
    ELSE LET k == CHOOSE x \in DOMAIN m : TRUE IN m[k] + SumOf(MapRemove(m, k))

NonNegativeAmounts == \A id \in DOMAIN account.txn_history : account.txn_history[id].amount >= 0

C11_HeldIsSumOfDisputed ==
    /\ account.held = SumOf(account.disputed_txns)
    /\ NonNegativeAmounts => account.held >= 0

\* Two transactions are in dispute, one was charged back or resolved before.
C11_Witness ==
    /\ NonNegativeAmounts
    /\ Cardinality(DOMAIN account.disputed_txns) >= 2
    /\ account.held >= 2
    /\ last.called /\ last.kind = "Dispute" /\ last.err = "Ok"

(***************************************************************************)
(* C12: every id in disputed_txns is an id of txn_history, and no id       *)
(* leaves txn_history.                                                     *)
(***************************************************************************)
C12_DisputedInHistory ==
    /\ [](DOMAIN account.disputed_txns \subseteq DOMAIN account.txn_history)
    /\ [][DOMAIN account.txn_history \subseteq DOMAIN account'.txn_history]_vars

\* A recorded transaction is in dispute and another is not.
C12_Witness ==
    /\ DOMAIN account.disputed_txns # {}
    /\ DOMAIN account.disputed_txns # DOMAIN account.txn_history
    /\ last.called /\ last.kind = "Dispute" /\ last.err = "Ok"

(***************************************************************************)
(* C13: a successful Chargeback of a transaction disputed with amount a    *)
(* leaves available unchanged, takes a off held and takes a off the        *)
(* reported total.                                                         *)
(***************************************************************************)
C13_ChargebackTakesAmountOffTotal ==
    \A txn \in Transactions :
        LET r == ProcessTxn(account, txn) IN
        (txn.kind = "Chargeback" /\ r.err = "Ok") =>
            LET a == account.disputed_txns[txn.id] IN
            /\ r.acct.available = account.available
            /\ r.acct.held = account.held - a
            /\ Total(r.acct) = Total(account) - a

(***************************************************************************)
(* C14: the checks come in a fixed order and the first that fails names    *)
(* the error: WrongAccount, then AccountLocked, then those of the          *)
(* transaction type: for a Withdrawal AlreadyProcessed before              *)
(* InsufficientFunds, for a Dispute AlreadyInDispute before NotFound, for  *)
(* a Resolve or Chargeback NotInDispute.                                   *)
(***************************************************************************)
C14_CheckOrder ==
    \A txn \in Transactions :
        LET err == ProcessTxn(account, txn).err
            own == txn.account_id = account.id
            open == own /\ ~account.locked
            recorded == txn.id \in DOMAIN account.txn_history
            disputed == txn.id \in DOMAIN account.disputed_txns IN
        /\ ~own => err = "WrongAccount"
        /\ (own /\ account.locked) => err = "AccountLocked"
        /\ (open /\ txn.kind \in MonetaryKinds /\ recorded) =>
               err = "TransactionAlreadyProcessed"
        /\ (open /\ txn.kind = "Deposit" /\ ~recorded) => err = "Ok"
        /\ (open /\ txn.kind = "Withdrawal" /\ ~recorded) =>
               err = (IF account.available < txn.amount THEN "InsufficientFunds" ELSE "Ok")
        /\ (open /\ txn.kind = "Dispute" /\ disputed) => err = "TransactionAlreadyInDispute"
        /\ (open /\ txn.kind = "Dispute" /\ ~disputed) =>
               err = (IF recorded THEN "Ok" ELSE "TransactionNotFound")
        /\ (open /\ txn.kind \in {"Resolve", "Chargeback"}) =>
               err = (IF disputed THEN "Ok" ELSE "TransactionNotInDispute")

\* A Withdrawal that fails both of its checks was rejected as already processed.
C14_Witness ==
    /\ ~account.locked
    /\ account.available < 0 - MaxDebit
    /\ last.called /\ last.kind = "Withdrawal"
    /\ last.err = "TransactionAlreadyProcessed"

(***************************************************************************)
(* C19: a successful Dispute takes the recorded amount off available, adds *)
(* it to held and records it in disputed_txns, the same for a recorded     *)
(* Deposit and a recorded Withdrawal, and leaves available + held as it    *)
(* was.                                                                    *)
(***************************************************************************)
C19_DisputeIsSymmetric ==
    \A txn \in Transactions :
        LET r == ProcessTxn(account, txn) IN
        (txn.kind = "Dispute" /\ r.err = "Ok") =>
            LET a == account.txn_history[txn.id].amount IN
            /\ r.acct = [account EXCEPT !.available = @ - a,
                                        !.held = @ + a,
                                        !.disputed_txns = MapInsert(@, txn.id, a)]
            /\ r.acct.available + r.acct.held = account.available + account.held

\* A recorded Withdrawal of a positive amount has just been put in dispute.
C19_Witness ==
    /\ last.called /\ last.kind = "Dispute" /\ last.err = "Ok"
    /\ \A id \in DOMAIN account.disputed_txns :
          account.txn_history[id].kind = "Withdrawal" /\ account.txn_history[id].amount > 0
    /\ account.held > 0

(***************************************************************************)
(* C20: a successful Dispute followed at once by the Resolve of the same   *)
(* id succeeds and gives back the account as it was before the Dispute     *)
(* (available, held, disputed_txns, the reported total), unlocked.         *)
(***************************************************************************)
C20_DisputeResolveRoundTrip ==
    \A txn \in Transactions :
        LET d == ProcessTxn(account, txn) IN
        (txn.kind = "Dispute" /\ d.err = "Ok") =>
            LET r == ProcessTxn(d.acct, Transaction(txn.id, txn.account_id, "Resolve", 0)) IN
            /\ r.err = "Ok"
            /\ r.acct = account
            /\ Total(r.acct) = Total(account)
            /\ ~r.acct.locked

\* A Resolve has just given the held funds back.
C20_Witness ==
    /\ last.called /\ last.kind = "Resolve" /\ last.err = "Ok"
    /\ account.disputed_txns = EmptyMap /\ account.held = 0 /\ account.available > 0
    /\ ~account.locked

(***************************************************************************)
(* C15: once a record has failed to parse the run is over: shutdown is not *)
(* called, its accounts are never handed to the writer and no account row  *)
(* is written, however many records were dispatched before.                *)
(***************************************************************************)
C15_ParseErrorAborts ==
    /\ [](mainpc = "aborted" => (accounts = {} /\ output = {}))
    /\ [][mainpc = "aborted" =>
            (mainpc' = "aborted" /\ accounts' = accounts /\ output' = output)]_vars

\* The parse error came after two transactions had reached the workers' accounts.
C15_Witness ==
    /\ mainpc = "aborted"
    /\ Len(forwarded) >= 2
    /\ \E w \in Workers : \E c \in DOMAIN worker_accounts[w] : worker_accounts[w][c].available > 0

(***************************************************************************)
(* C16: the accounts shutdown returns hold exactly one snapshot for each   *)
(* client id that a forwarded transaction named, also when all of that     *)
(* client's transactions were rejected, and none for any other client id.  *)
(***************************************************************************)
C16_OneSnapshotPerForwardedClient ==
    ShutdownReturned =>
        /\ {a.id : a \in accounts} = {forwarded[i].txn.account_id : i \in 1..Len(forwarded)}
        /\ \A a, b \in accounts : a.id = b.id => a = b

\* One client had every transaction rejected, another was submitted but never forwarded.
C16_Witness ==
    /\ ShutdownReturned
    /\ \E a \in accounts : a = NewAccount(a.id)
    /\ \E e \in Submitted : \A a \in accounts : a.id # e.txn.account_id

(***************************************************************************)
(* C17: a rejected transaction does not stop its worker: the worker's      *)
(* accounts are those of applying, in order, every transaction it has      *)
(* taken off its channel, rejected ones included, and its thread returns   *)
(* only after Worker::stop has sent None.                                  *)
(***************************************************************************)
C17_RejectionDoesNotStopWorker ==
    \A w \in Workers :
        /\ worker_accounts[w] = ApplyAll(EmptyMap, Consumed(w))
        /\ worker_thread[w] = "returned" => StopSent(w)

\* The first transaction forwarded was rejected, a later one for the same client was applied.
C17_Witness ==
    /\ Len(forwarded) >= 2
    /\ forwarded[1].txn.kind \in ReferenceKinds
    /\ \E w \in Workers :
          /\ forwarded[1].txn.account_id \in DOMAIN worker_accounts[w]
          /\ worker_accounts[w][forwarded[1].txn.account_id].available > 0
          /\ worker_thread[w] = "running"

(***************************************************************************)
(* C18: shutdown drains before it collects: once the dispatcher is joined  *)
(* every submitted transaction whose tag has no gap below it has been      *)
(* forwarded (the tags being distinct), a joined worker's channel is       *)
(* empty, and the accounts returned are those of applying every forwarded  *)
(* transaction.                                                            *)
(***************************************************************************)
C18_DrainBeforeCollect ==
    /\ (DispatcherJoined /\ DistinctTags) =>
          \A e \in Submitted : GapFree(e) => \E i \in 1..Len(forwarded) : forwarded[i] = e
    /\ DispatcherJoined => txn_tx = <<>>
    /\ \A w \in Workers : (DispatcherJoined /\ stopping > w) =>
          (worker_tx[w] = <<>> /\ IntoValues(ApplyAll(EmptyMap, ForwardedTo(w))) \subseteq accounts)
    /\ ShutdownReturned => accounts = InOrderPass(Txns(forwarded))

\* Shutdown returned after both workers had applied forwarded transactions.
C18_Witness ==
    /\ ShutdownReturned
    /\ DistinctTags
    /\ Len(forwarded) = MaxTxns
    /\ num_workers = 2
    /\ \A w \in Workers : ForwardedTo(w) # <<>>
    /\ \E a \in accounts : a.available > 0

(***************************************************************************)
(* C21: on an open account a Withdrawal with a fresh id succeeds exactly   *)
(* when available >= amount; then available goes down by the amount, held *)
(* stays and the id is recorded; otherwise it is InsufficientFunds; and a  *)
(* successful Withdrawal of a non-negative amount leaves available         *)
(* non-negative.                                                           *)
(***************************************************************************)
C21_WithdrawalIffFunds ==
    \A txn \in Transactions :
        (/\ txn.kind = "Withdrawal"
         /\ txn.account_id = account.id
         /\ ~account.locked
         /\ txn.id \notin DOMAIN account.txn_history) =>
            LET r == ProcessTxn(account, txn) IN
            /\ r.err = "Ok" <=> account.available >= txn.amount
            /\ r.err = "Ok" =>
                  /\ r.acct = [account EXCEPT !.available = @ - txn.amount,
                                              !.txn_history = MapInsert(@, txn.id, txn)]
                  /\ r.acct.held = account.held
                  /\ txn.amount >= 0 => r.acct.available >= 0
            /\ r.err # "Ok" => r.err = "InsufficientFunds"

\* A Withdrawal of a positive amount has just taken all that was available.
C21_Witness ==
    /\ last.called /\ last.kind = "Withdrawal" /\ last.err = "Ok"
    /\ account.available = 0
    /\ account.disputed_txns = EmptyMap
    /\ \E id \in DOMAIN account.txn_history :
          account.txn_history[id].kind = "Withdrawal" /\ account.txn_history[id].amount > 0

(***************************************************************************)
(* C22: a call of process_txn that returns an error, of any kind, leaves   *)
(* available, held, locked, txn_history and disputed_txns as they were.    *)
(***************************************************************************)
C22_ErrorChangesNothing ==
    /\ [](\A txn \in Transactions :
            ProcessTxn(account, txn).err # "Ok" => ProcessTxn(account, txn).acct = account)
    /\ [][(last'.called /\ last'.err # "Ok") => account' = account]_vars

\* A Resolve failed on an account that has another transaction in dispute.
C22_Witness ==
    /\ last.called /\ last.kind = "Resolve" /\ last.err = "TransactionNotInDispute"
    /\ account.disputed_txns # EmptyMap
    /\ account.held > 0

(***************************************************************************)
(* C25: available + held is the sum of the Deposits applied, less the sum  *)
(* of the Withdrawals applied, less the amounts that successful            *)
(* Chargebacks removed.                                                    *)
(***************************************************************************)
RECURSIVE SumOfKind(_, _)
SumOfKind(history, kind) ==
    IF DOMAIN history = {} THEN 0
    ELSE LET id == CHOOSE x \in DOMAIN history : TRUE IN
         (IF history[id].kind = kind THEN history[id].amount ELSE 0)
             + SumOfKind(MapRemove(history, id), kind)

C25_Conservation ==
    account.available + account.held =
        SumOfKind(account.txn_history, "Deposit")
            - SumOfKind(account.txn_history, "Withdrawal")
            - charged_back

\* A Deposit and a Withdrawal were applied and a positive amount was charged back.
C25_Witness ==
    /\ charged_back > 0
    /\ SumOfKind(account.txn_history, "Deposit") > 0
    /\ SumOfKind(account.txn_history, "Withdrawal") > 0

(***************************************************************************)
(* C23: two transactions of one client are applied to its account in the   *)
(* order of their tags, whatever order they arrived in: the dispatcher     *)
(* forwards in ascending tag order, a worker's channel hands over what was *)
(* forwarded to it first in, first out, and each account is the result of  *)
(* applying its client's consumed transactions in that order.              *)
(***************************************************************************)
C23_PerClientTagOrder ==
    /\ \A i, j \in 1..Len(forwarded) : i < j => forwarded[i].order < forwarded[j].order
    /\ \A w \in Workers : Consumed(w) \o Vals(worker_tx[w]) = ForwardedTo(w)
    /\ \A w \in Workers : \A c \in DOMAIN worker_accounts[w] :
          worker_accounts[w][c] = ApplyAll(EmptyMap, ForClients(Consumed(w), {c}))[c]

\* A client's Dispute arrived before the Deposit it refers to and was applied after it.
C23_Witness ==
    /\ popped >= 1
    /\ Len(forwarded) >= 2
    /\ \A i \in 1..Len(forwarded) : forwarded[i].txn.account_id = forwarded[1].txn.account_id
    /\ \E w \in Workers : \E c \in DOMAIN worker_accounts[w] : worker_accounts[w][c].held > 0

(***************************************************************************)
(* C26: each order tag is forwarded at most once and the number forwarded  *)
(* equals next_expected; an OrderedTransaction received with a tag below   *)
(* next_expected is not forwarded but pushed onto the heap, and once on    *)
(* the heap it stays there.                                                *)
(***************************************************************************)
C26_StaleTagsStayInHeap ==
    /\ [](/\ \A i, j \in 1..Len(forwarded) : forwarded[i].order = forwarded[j].order => i = j
          /\ Len(forwarded) = next_expected)
    /\ [][(/\ txn_tx # <<>>
           /\ Head(txn_tx).some
           /\ Head(txn_tx).val.order < next_expected
           /\ txn_tx' = Tail(txn_tx)) =>
              (/\ forwarded' = forwarded
               /\ worker_tx' = worker_tx
               /\ heap' = HeapPush(heap, Head(txn_tx).val))]_vars
    /\ [][\A e \in HeapSet(heap) :
            e.order < next_expected => CopiesIn(e, heap') >= CopiesIn(e, heap)]_vars

\* The dispatcher exited with a repeated tag on its heap, after forwarding past it.
C26_Witness ==
    /\ dispatcher = "returned"
    /\ Len(forwarded) >= 2
    /\ \E e \in HeapSet(heap) : e.order < next_expected

(***************************************************************************)
(* C27: transaction ids are scoped per account and accounts are isolated:  *)
(* applying a transaction for client c changes no account but c's, and a   *)
(* Dispute, Resolve or Chargeback for an open account of c naming an id    *)
(* that is not in c's own txn_history, though it may be in another         *)
(* client's, is rejected with NotFound or NotInDispute and changes         *)
(* nothing.                                                                *)
(***************************************************************************)
C27_AccountsIsolated ==
    /\ [](\A w \in Workers : \A txn \in Transactions :
            WorkerIdx(txn) = w =>
                LET accts == worker_accounts[w]
                    entry == Entry(accts, txn)
                    after == WorkerApply(accts, txn) IN
                /\ DOMAIN after = DOMAIN accts \cup {txn.account_id}
                /\ \A c \in DOMAIN accts : c # txn.account_id => after[c] = accts[c]
                /\ (/\ txn.kind \in ReferenceKinds
                    /\ ~entry.locked
                    /\ txn.id \notin DOMAIN entry.txn_history) =>
                      /\ ProcessTxn(entry, txn).err =
                             (IF txn.kind = "Dispute" THEN "TransactionNotFound"
                              ELSE "TransactionNotInDispute")
                      /\ after[txn.account_id] = entry)
    /\ [][\A w \in Workers : \A c \in DOMAIN worker_accounts[w] :
            worker_accounts'[w][c] # worker_accounts[w][c] =>
                (/\ worker_tx[w] # <<>>
                 /\ Head(worker_tx[w]).some
                 /\ Head(worker_tx[w]).val.account_id = c)]_vars

\* A client's Dispute named an id recorded only by another client, and left both accounts alone.
C27_Witness ==
    \E i \in 1..Len(forwarded) : \E v, w \in Workers :
        LET txn == forwarded[i].txn IN
        /\ txn.kind = "Dispute"
        /\ txn.account_id \in DOMAIN worker_accounts[w]
        /\ worker_accounts[w][txn.account_id] = NewAccount(txn.account_id)
        /\ \E c \in DOMAIN worker_accounts[v] :
              /\ c # txn.account_id
              /\ txn.id \in DOMAIN worker_accounts[v][c].txn_history
              /\ worker_accounts[v][c].available > 0
              /\ worker_accounts[v][c].held = 0

(***************************************************************************)
(* C24: under fair scheduling, once shutdown has been called the           *)
(* dispatcher thread exits, every worker thread exits and shutdown returns *)
(* the account list: no thread waits on a channel forever.                 *)
(***************************************************************************)
AllThreadsReturned ==
    /\ dispatcher = "returned"
    /\ \A w \in Workers : worker_thread[w] = "returned"

C24_ShutdownTerminates ==
    (mainpc = "join_dispatcher") ~> (AllThreadsReturned /\ ShutdownReturned)

\* Shutdown returned from two workers although a gap had left a transaction on the heap.
C24_Witness ==
    /\ ShutdownReturned
    /\ AllThreadsReturned
    /\ num_workers = 2
    /\ heap # EmptyBag
    /\ forwarded # <<>>
    /\ \A w \in Workers : worker_tx[w] = <<>>

=============================================================================
